---- MODULE Spec2Model ----
(***************************************************************************)
(* A model of flutter/ppSearch.py: the decomposition of the hex value into *)
(* the two operands, the r2pipe session of run_command, the scan of        *)
(* search_patterns and the output of main().                               *)
(*                                                                         *)
(* Python strings are TLA+ strings (TLC evaluates Len, SubSeq and \o on    *)
(* them); a Python list is a sequence.  Python indices are 0-based: the    *)
(* operators below take and return Python indices and add 1 only where a   *)
(* TLA+ sequence is read.                                                  *)
(***************************************************************************)
EXTENDS Integers, Sequences, FiniteSets, TLC

VARIABLES
    pc,             \* position in main(): see the actions
    exc,            \* the exception that ended the run ("" when none)
    hex_value,      \* args.hex_value
    first_target,   \* main's first_target
    second_target,  \* main's second_target
    stdout,         \* what was written to standard output, one entry per call
    session,        \* the r2pipe session: "none", "open" or "closed"
    cmds,           \* the commands sent to the engine, in order
    hits,           \* run_command: the lines of the search reply
    h,              \* run_command: index of the next hit line
    windows,        \* the texts the engine returned for the window queries
    text,           \* run_command's local `output` (a string)
    output,         \* the list run_command returns, main's `output`
    i,              \* search_patterns: the loop index
    scanned,        \* the indices the loop of search_patterns has visited
    matches         \* search_patterns: the list `matches`

vars == <<pc, exc, hex_value, first_target, second_target, stdout, session,
          cmds, hits, h, windows, text, output, i, scanned, matches>>

(***************************************************************************)
(* Bounds of the model.                                                    *)
(***************************************************************************)
MaxDigits == 6
MaxHits == 2
MaxLines == 4

(***************************************************************************)
(* Python's str and list operations.                                       *)
(***************************************************************************)
Min(a, b) == IF a < b THEN a ELSE b
Max(a, b) == IF a > b THEN a ELSE b

\* s[k] for a valid Python index k
CharAt(s, k) == SubSeq(s, k + 1, k + 1)

\* how a slice bound k is clamped for a string of length n
SliceBound(n, k) == IF k < 0 THEN Max(n + k, 0) ELSE Min(k, n)

\* s[lo:hi]
PySlice(s, lo, hi) ==
    SubSeq(s, SliceBound(Len(s), lo) + 1, SliceBound(Len(s), hi))

\* s[lo:]
PySliceFrom(s, lo) == SubSeq(s, SliceBound(Len(s), lo) + 1, Len(s))

\* s.startswith(p)
StartsWith(s, p) == Len(s) >= Len(p) /\ SubSeq(s, 1, Len(p)) = p

\* s.lstrip(chars): every leading character that is in chars is removed
RECURSIVE LStrip(_, _)
LStrip(s, chars) ==
    IF Len(s) > 0 /\ CharAt(s, 0) \in chars
    THEN LStrip(PySliceFrom(s, 1), chars)
    ELSE s

(***************************************************************************)
(* main(), lines 127-142: the two operands.                                *)
(***************************************************************************)
values == {"a", "b", "c", "d", "e", "f"}

\* the characters of the argument of lstrip("0x")
LStripChars == {"0", "x"}

FirstSlice(hv) == PySlice(hv, 0, -3)

CheckFirst(hv) ==
    LET stripped == LStrip(FirstSlice(hv), LStripChars)
    IN  IF StartsWith(stripped, "0") THEN PySliceFrom(stripped, 1) ELSE stripped

\* a faulty variant: the collapse to a single digit is lost
FirstTargetNoCollapse(hv) == FirstSlice(hv)

FirstTarget(hv) ==
    IF Len(CheckFirst(hv)) = 1 /\ CheckFirst(hv) \notin values
    THEN CheckFirst(hv)
    ELSE FirstSlice(hv)

\* a faulty variant: the "00" test looks at the last two characters
SecondTargetLastTwo(hv) ==
    IF PySliceFrom(hv, -2) = "00" THEN PySlice(hv, -3, -2)
    ELSE IF PySlice(hv, -3, -2) = "0" THEN "0x" \o PySliceFrom(hv, -2)
    ELSE "0x" \o PySliceFrom(hv, -3)

\* a faulty variant: the elif branch is lost
SecondTargetNoElif(hv) ==
    IF PySlice(hv, -3, -1) = "00" THEN PySliceFrom(hv, -1)
    ELSE "0x" \o PySliceFrom(hv, -3)

SecondTarget(hv) ==
    IF PySlice(hv, -3, -1) = "00" THEN PySliceFrom(hv, -1)
    ELSE IF PySlice(hv, -3, -2) = "0" THEN "0x" \o PySliceFrom(hv, -2)
    ELSE "0x" \o PySliceFrom(hv, -3)

(***************************************************************************)
(* str.split(sep) for a one-character separator, str.strip() and "\n".join *)
(***************************************************************************)
WhiteSpace == {" ", "\t", "\n", "\r"}

\* the Python index of the first sep in s at or after k, or Len(s) when none
RECURSIVE Find(_, _, _)
Find(s, sep, k) ==
    IF k >= Len(s) \/ CharAt(s, k) = sep THEN Min(k, Len(s))
    ELSE Find(s, sep, k + 1)

RECURSIVE Split(_, _)
Split(s, sep) ==
    LET k == Find(s, sep, 0)
    IN  IF k >= Len(s) THEN <<s>>
        ELSE <<PySlice(s, 0, k)>> \o Split(PySliceFrom(s, k + 1), sep)

RECURSIVE RStrip(_, _)
RStrip(s, chars) ==
    IF Len(s) > 0 /\ CharAt(s, Len(s) - 1) \in chars
    THEN RStrip(PySlice(s, 0, Len(s) - 1), chars)
    ELSE s

Strip(s) == RStrip(LStrip(s, WhiteSpace), WhiteSpace)

RECURSIVE Join(_, _)
Join(lines, sep) ==
    IF lines = <<>> THEN ""
    ELSE IF Len(lines) = 1 THEN lines[1]
    ELSE lines[1] \o sep \o Join(Tail(lines), sep)

(***************************************************************************)
(* The two regular expressions of main(), lines 150-151, and re.search.    *)
(* A pattern is a sequence of elements [plus, cs]: one character of cs, or *)
(* (plus) one or more of them.  The operands are interpolated as they are: *)
(* each of their characters stands for itself (true of letters and digits, *)
(* the characters the model draws operands from).  A position is the       *)
(* number of characters of the line consumed so far.                       *)
(***************************************************************************)
Digits == {"0", "1", "2", "3", "4", "5", "6", "7", "8", "9"}

Lit(s) == [k \in 1..Len(s) |-> [plus |-> FALSE, cs |-> {CharAt(s, k - 1)}]]
Plus(chars) == <<[plus |-> TRUE, cs |-> chars]>>

\* add\s+(x\d+),\s+x27,\s+{first_target},\s+lsl\s+12
InstrPattern1(ft) ==
    Lit("add") \o Plus(WhiteSpace) \o Lit("x") \o Plus(Digits) \o Lit(",")
    \o Plus(WhiteSpace) \o Lit("x27,") \o Plus(WhiteSpace) \o Lit(ft)
    \o Lit(",") \o Plus(WhiteSpace) \o Lit("lsl") \o Plus(WhiteSpace)
    \o Lit("12")

\* ldr\s+(x\d+),\s+\[(x\d+),\s+{second_target}]
InstrPattern2(st) ==
    Lit("ldr") \o Plus(WhiteSpace) \o Lit("x") \o Plus(Digits) \o Lit(",")
    \o Plus(WhiteSpace) \o Lit("[x") \o Plus(Digits) \o Lit(",")
    \o Plus(WhiteSpace) \o Lit(st) \o Lit("]")

\* the positions reached from those of P by one element
StepElem(e, line, P) ==
    IF e.plus
    THEN {q \in 1..Len(line) :
            \E p \in P : p < q /\ \A r \in p..(q - 1) : CharAt(line, r) \in e.cs}
    ELSE {p + 1 : p \in {q \in P : q < Len(line) /\ CharAt(line, q) \in e.cs}}

RECURSIVE MatchEnds(_, _, _, _)
MatchEnds(pat, k, line, P) ==
    IF k > Len(pat) \/ P = {} THEN P
    ELSE MatchEnds(pat, k + 1, line, StepElem(pat[k], line, P))

\* pattern.search(line) is not None: a match may start anywhere in the line
Search(pat, line) == MatchEnds(pat, 1, line, 0..Len(line)) # {}

(***************************************************************************)
(* The inputs: the hex values of the command line, and what the engine     *)
(* (an opaque process behind r2pipe) may reply.                            *)
(***************************************************************************)
HexPrefixes == {"", "0x"}
HexDigits == {"0", "8", "f"}

RECURSIVE StringsOfLen(_, _)
StringsOfLen(alphabet, n) ==
    IF n = 0 THEN {""}
    ELSE {s \o c : s \in StringsOfLen(alphabet, n - 1), c \in alphabet}

\* every string of at most MaxDigits hex digits, with and without the prefix
HexStrings ==
    {p \o d : p \in HexPrefixes,
              d \in UNION {StringsOfLen(HexDigits, n) : n \in 0..MaxDigits}}

\* the hex values the whole run is explored with: the example of the module
\* docstring, a value with a "00" offset, and two malformed values
HexSamples == {"0x88f0", "0x8008", "0x8", "0x8g0"}

AddLine == "add x16, x27, 8, lsl 12"
LdrLine == "ldr x16, [x16, 0x8f0]"
AddLineAt == "0x003076fc 70234091 add x16, x27, 8, lsl 12"
LdrLineAt == "0x00307700 107a44f9 ldr x16, [x16, 0x8f0] ; 0xea"
MovLine == "mov x0, x1"
BothLine == "add x0, x27, 8, lsl 12; ldr x0, [x0, 0x8f0]"

\* the lines the search query may reply with: blank ones and hits
HitLines == {"", " ", "0x003076fc add", "0x003095bc"}

RECURSIVE SeqsOfLen(_, _)
SeqsOfLen(S, n) ==
    IF n = 0 THEN {<<>>}
    ELSE {Append(q, x) : q \in SeqsOfLen(S, n - 1), x \in S}

SeqsUpTo(S, n) == UNION {SeqsOfLen(S, k) : k \in 0..n}

SearchReplies == {Join(q, "\n") : q \in SeqsUpTo(HitLines, MaxHits)}

\* the texts a window query may reply with, with and without a final line
\* break
WindowReplies ==
    { Join(<<AddLineAt, LdrLineAt, MovLine>>, "\n"),
      Join(<<AddLineAt, LdrLineAt, MovLine>>, "\n") \o "\n",
      Join(<<AddLine, LdrLine>>, "\n"),
      Join(<<MovLine, LdrLine>>, "\n") }

\* the lists search_patterns is explored with on its own
MatcherLines == {AddLine, LdrLine, BothLine, MovLine}
MatcherInputs == SeqsUpTo(MatcherLines, MaxLines)

\* the values of execution_time, formatted
Elapsed == {"0.00", "12.36"}

(***************************************************************************)
(* The state after argument parsing.                                       *)
(***************************************************************************)
Start(hv) ==
    /\ pc = "decompose"
    /\ exc = ""
    /\ hex_value = hv
    /\ first_target = ""
    /\ second_target = ""
    /\ stdout = <<>>
    /\ session = "none"
    /\ cmds = <<>>
    /\ hits = <<>>
    /\ h = 0
    /\ windows = <<>>
    /\ text = ""
    /\ output = <<>>
    /\ i = 0
    /\ scanned = <<>>
    /\ matches = <<>>

Init == \E hv \in HexSamples : Start(hv)

InitDecompose == \E hv \in HexStrings : Start(hv)

(***************************************************************************)
(* main(), lines 124-146.                                                  *)
(***************************************************************************)
Decompose ==
    /\ pc = "decompose"
    /\ first_target' = FirstTarget(hex_value)
    /\ second_target' = SecondTarget(hex_value)
    /\ pc' = "print"
    /\ UNCHANGED <<exc, hex_value, stdout, session, cmds, hits, h, windows,
                   text, output, i, scanned, matches>>

OperandLines(ft, st) ==
    << "The First Target is: " \o ft,
       "The Second Target is: " \o st,
       "Looking for matches..." \o "\r" >>

PrintOperands ==
    /\ pc = "print"
    /\ stdout' = stdout \o OperandLines(first_target, second_target)
    /\ pc' = "open"
    /\ UNCHANGED <<exc, hex_value, first_target, second_target, session, cmds,
                   hits, h, windows, text, output, i, scanned, matches>>

(***************************************************************************)
(* run_command(), lines 77-87.  Every call into r2pipe either returns or   *)
(* raises; an exception is not caught anywhere and ends the run.           *)
(***************************************************************************)
SearchCmd(ft, st) ==
    "/ad/ add.*, x27, " \o ft \o ", lsl 12; .*, [.*, " \o st \o "]"

WindowCmd(line) == "s " \o Split(line, " ")[1] \o ";pd3"

Raise(e) ==
    /\ pc' = "crashed"
    /\ exc' = e

R2Open ==
    /\ pc = "open"
    /\ \/ /\ session' = "open"
          /\ pc' = "search_cmd"
          /\ exc' = exc
       \/ /\ Raise("open failed")
          /\ session' = session
    /\ UNCHANGED <<hex_value, first_target, second_target, stdout, cmds, hits,
                   h, windows, text, output, i, scanned, matches>>

R2Search ==
    /\ pc = "search_cmd"
    /\ cmds' = Append(cmds, SearchCmd(first_target, second_target))
    /\ \/ \E reply \in SearchReplies :
            /\ hits' = Split(reply, "\n")
            /\ h' = 0
            /\ pc' = "hit_loop"
            /\ exc' = exc
       \/ /\ Raise("cmd failed")
          /\ UNCHANGED <<hits, h>>
    /\ UNCHANGED <<hex_value, first_target, second_target, stdout, session,
                   windows, text, output, i, scanned, matches>>

\* the statement after a window query returned reply
Accumulate(txt, reply) == txt \o reply

\* line 84: whether the hit line is asked for
IsHit(line) == Strip(line) # ""

R2Window ==
    /\ pc = "hit_loop"
    /\ h < Len(hits)
    /\ IF IsHit(hits[h + 1])
       THEN /\ cmds' = Append(cmds, WindowCmd(hits[h + 1]))
            /\ \/ \E reply \in WindowReplies :
                    /\ text' = Accumulate(text, reply)
                    /\ windows' = Append(windows, reply)
                    /\ h' = h + 1
                    /\ UNCHANGED <<pc, exc>>
               \/ /\ Raise("cmd failed")
                  /\ UNCHANGED <<text, windows, h>>
       ELSE /\ h' = h + 1
            /\ UNCHANGED <<pc, exc, cmds, text, windows>>
    /\ UNCHANGED <<hex_value, first_target, second_target, stdout, session,
                   hits, output, i, scanned, matches>>

R2Quit ==
    /\ pc = "hit_loop"
    /\ h = Len(hits)
    /\ session' = "closed"
    /\ output' = Split(text, "\n")
    /\ pc' = "scan"
    /\ UNCHANGED <<exc, hex_value, first_target, second_target, stdout, cmds,
                   hits, h, windows, text, i, scanned, matches>>

(***************************************************************************)
(* search_patterns(), lines 90-109, called from main() line 153 with the   *)
(* patterns compiled from the two operands.  A list index outside the list *)
(* raises IndexError.                                                      *)
(***************************************************************************)
\* faulty variants: range(len(output) - 2), range(len(output))
ScanEndShort(out) == Len(out) - 2
ScanEndLong(out) == Len(out)

\* range(len(output) - 1): the loop runs for 0 <= i < ScanEnd(out)
ScanEnd(out) == Len(out) - 1

\* the index the loop visits after i
NextIndex(k) == k + 1

InRange(out, k) == 0 <= k /\ k < Len(out)

\* line 106, evaluated left to right: the indices it reads
Reads(out, k, ft) ==
    IF InRange(out, k) /\ Search(InstrPattern1(ft), out[k + 1])
    THEN {k, k + 1}
    ELSE {k}

\* line 106 for indices in range
PairMatches(out, k, ft, st) ==
    /\ Search(InstrPattern1(ft), out[k + 1])
    /\ Search(InstrPattern2(st), out[k + 2])

ScanStep ==
    /\ pc = "scan"
    /\ i < ScanEnd(output)
    /\ scanned' = Append(scanned, i)
    /\ IF \A k \in Reads(output, i, first_target) : InRange(output, k)
       THEN /\ matches' =
                  IF PairMatches(output, i, first_target, second_target)
                  THEN Append(matches, <<output[i + 1], output[i + 2]>>)
                  ELSE matches
            /\ i' = NextIndex(i)
            /\ UNCHANGED <<pc, exc>>
       ELSE /\ Raise("IndexError")
            /\ UNCHANGED <<matches, i>>
    /\ UNCHANGED <<hex_value, first_target, second_target, stdout, session,
                   cmds, hits, h, windows, text, output>>

ScanReturn ==
    /\ pc = "scan"
    /\ i >= ScanEnd(output)
    /\ pc' = "report"
    /\ UNCHANGED <<exc, hex_value, first_target, second_target, stdout,
                   session, cmds, hits, h, windows, text, output, i, scanned,
                   matches>>

(***************************************************************************)
(* main(), lines 155-165.                                                  *)
(***************************************************************************)
MatchLines(ms) == [k \in 1..Len(ms) |-> ms[k][1] \o "\n" \o ms[k][2] \o "\n"]

FoundLines(ms) ==
    IF ms # <<>>
    THEN <<"Found " \o ToString(Len(ms)) \o " direct matches:">> \o MatchLines(ms)
    ELSE <<>>

\* a faulty variant: the second test is lost
NoMatchLinesAlways(ms) == <<"No matches found.">>

NoMatchLines(ms) == IF ms = <<>> THEN <<"No matches found.">> ELSE <<>>

TimeLine(t) == "Script execution time: " \o t \o " seconds"

PrintResults ==
    /\ pc = "report"
    /\ stdout' = stdout \o FoundLines(matches) \o NoMatchLines(matches)
    /\ pc' = "time"
    /\ UNCHANGED <<exc, hex_value, first_target, second_target, session, cmds,
                   hits, h, windows, text, output, i, scanned, matches>>

PrintTime ==
    /\ pc = "time"
    /\ \E t \in Elapsed : stdout' = Append(stdout, TimeLine(t))
    /\ pc' = "done"
    /\ UNCHANGED <<exc, hex_value, first_target, second_target, session, cmds,
                   hits, h, windows, text, output, i, scanned, matches>>

(***************************************************************************)
(* The specifications: the whole run; the decomposition alone, on every    *)
(* bounded hex string; search_patterns alone, on every bounded list.       *)
(***************************************************************************)
Next ==
    \/ Decompose
    \/ PrintOperands
    \/ R2Open
    \/ R2Search
    \/ R2Window
    \/ R2Quit
    \/ ScanStep
    \/ ScanReturn
    \/ PrintResults
    \/ PrintTime

Spec == Init /\ [][Next]_vars

NextDecompose == Decompose \/ PrintOperands

SpecDecompose == InitDecompose /\ [][NextDecompose]_vars

\* main() has reached line 153 with the operands of hv and the list out
InitMatcher ==
    \E hv \in HexSamples, out \in MatcherInputs :
        /\ pc = "scan"
        /\ exc = ""
        /\ hex_value = hv
        /\ first_target = FirstTarget(hv)
        /\ second_target = SecondTarget(hv)
        /\ stdout = OperandLines(FirstTarget(hv), SecondTarget(hv))
        /\ session = "closed"
        /\ cmds = <<>>
        /\ hits = <<>>
        /\ h = 0
        /\ windows = <<>>
        /\ text = ""
        /\ output = out
        /\ i = 0
        /\ scanned = <<>>
        /\ matches = <<>>

NextMatcher == ScanStep \/ ScanReturn

SpecMatcher == InitMatcher /\ [][NextMatcher]_vars

(***************************************************************************)
(* The claims.                                                             *)
(***************************************************************************)
Decomposed == pc # "decompose"

\* the last three characters of a string of at least three
C1of(hv) == CharAt(hv, Len(hv) - 3)
C2of(hv) == CharAt(hv, Len(hv) - 2)
C3of(hv) == CharAt(hv, Len(hv) - 1)

\* rule 5 of the Operand Decomposer, on the three characters
OffsetRule(c1, c2, c3) ==
    IF c1 = "0" /\ c2 = "0" THEN c3
    ELSE IF c1 = "0" THEN "0x" \o c2 \o c3
    ELSE "0x" \o c1 \o c2 \o c3

HexChars == Digits \cup values

\* 0x followed by at least three hex digits
ValidHex(hv) ==
    /\ StartsWith(hv, "0x")
    /\ Len(hv) >= 5
    /\ \A k \in 2..(Len(hv) - 1) : CharAt(hv, k) \in HexChars

\* C1: for every hex value whose last three characters are c1 c2 c3, the
\* offset operand is c3 when c1 c2 = "00", else "0x" c2 c3 when c1 = "0",
\* else "0x" c1 c2 c3.
C1_OffsetRule ==
    (Decomposed /\ Len(hex_value) >= 3) =>
        second_target = OffsetRule(C1of(hex_value), C2of(hex_value), C3of(hex_value))

C1_Witness ==
    /\ pc = "open"
    /\ ValidHex(hex_value)
    /\ C1of(hex_value) = "0"
    /\ C2of(hex_value) # "0"
    /\ second_target = "0x" \o C2of(hex_value) \o C3of(hex_value)

\* C2, as stated: for every valid hex value, the offset operand is the
\* third-from-last digit when the last two digits are "00", else "0x" and the
\* last two digits when the third-from-last digit is "0", else "0x" and the
\* last three digits.
C2_AsStated ==
    (Decomposed /\ ValidHex(hex_value)) =>
        second_target =
            IF C2of(hex_value) \o C3of(hex_value) = "00" THEN C1of(hex_value)
            ELSE IF C1of(hex_value) = "0"
                 THEN "0x" \o C2of(hex_value) \o C3of(hex_value)
                 ELSE "0x" \o C1of(hex_value) \o C2of(hex_value) \o C3of(hex_value)

\* C2, amended: for every valid hex value, the offset operand is the last
\* digit alone when the third- and second-from-last digits are "00", else
\* "0x" and the last two digits when the third-from-last digit is "0", else
\* "0x" and the last three digits.
C2_Amended ==
    (Decomposed /\ ValidHex(hex_value)) =>
        /\ C1of(hex_value) \o C2of(hex_value) = "00"
              => second_target = C3of(hex_value)
        /\ (C1of(hex_value) = "0" /\ C2of(hex_value) # "0")
              => second_target = "0x" \o C2of(hex_value) \o C3of(hex_value)
        /\ C1of(hex_value) # "0"
              => second_target = "0x" \o PySliceFrom(hex_value, -3)

C2_Witness ==
    /\ pc = "open"
    /\ ValidHex(hex_value)
    /\ C1of(hex_value) \o C2of(hex_value) = "00"
    /\ C3of(hex_value) # "0"
    /\ second_target = C3of(hex_value)

\* the prefix with one leading "0x" and then at most one leading "0" removed
StrippedOnce(p) ==
    LET a == IF StartsWith(p, "0x") THEN PySliceFrom(p, 2) ELSE p
    IN  IF StartsWith(a, "0") THEN PySliceFrom(a, 1) ELSE a

\* C3: the shift operand differs from the hex value without its last three
\* characters only when, with one leading "0x" and at most one further
\* leading "0" removed from that prefix, exactly one character remains and
\* it is a decimal digit; in every other case it is that prefix, unchanged.
C3_CollapseRule ==
    (Decomposed /\ first_target # SubSeq(hex_value, 1, Len(hex_value) - 3)) =>
        /\ Len(StrippedOnce(FirstSlice(hex_value))) = 1
        /\ StrippedOnce(FirstSlice(hex_value)) \in Digits

\* fewer than three characters after the "0x" prefix, or a character that
\* is no hex digit after it
Malformed(hv) ==
    LET d == IF StartsWith(hv, "0x") THEN PySliceFrom(hv, 2) ELSE hv
    IN  \/ Len(d) < 3
        \/ \E k \in 0..(Len(d) - 1) : CharAt(d, k) \notin HexChars

\* C4: a malformed hex value ends the run in an InvalidInputError; the
\* engine is never opened or queried with operands derived from it.
C4_MalformedRejected ==
    Malformed(hex_value) =>
        /\ session = "none"
        /\ cmds = <<>>
        /\ pc = "crashed" => exc = "InvalidInputError"
        /\ pc # "done"

Returned == pc \in {"report", "time", "done"}

\* the indices k, ascending, of the adjacent pairs of out that match
RECURSIVE PairIndices(_, _, _, _)
PairIndices(out, ft, st, k) ==
    IF k > Len(out) - 2 THEN <<>>
    ELSE (IF Search(InstrPattern1(ft), out[k + 1])
             /\ Search(InstrPattern2(st), out[k + 2])
          THEN <<k>> ELSE <<>>) \o PairIndices(out, ft, st, k + 1)

ExpectedMatches(out, ft, st) ==
    LET idx == PairIndices(out, ft, st, 0)
    IN  [n \in 1..Len(idx) |-> <<out[idx[n] + 1], out[idx[n] + 2]>>]

\* C5: search_patterns returns exactly the pairs (line[i], line[i+1]), for
\* the i in 0..L-2 where P1 matches line[i] and P2 matches line[i+1], in
\* ascending order of i, with no deduplication and no overlap suppression,
\* and does not modify the input list.
C5_MatcherResult ==
    /\ [](Returned =>
            matches = ExpectedMatches(output, first_target, second_target))
    /\ [][output' = output]_vars

\* a line is the second element of one match and the first of the next
C5_Witness ==
    /\ pc = "report"
    /\ \E n \in 1..(Len(matches) - 1) : matches[n][2] = matches[n + 1][1]
    /\ \E k \in 1..(Len(output) - 2) :
          matches = << <<output[k], output[k + 1]>>,
                       <<output[k + 1], output[k + 2]>> >>

\* C6: whenever the session was opened, it is closed before control leaves
\* run_command, also when a query fails: no terminal state has an open
\* session.
C6_SessionClosed ==
    (pc \in {"crashed", "done"} \/ Returned \/ pc = "scan") => session # "open"

\* the two entries main prints for a match
PairText(m) == m[1] \o "\n" \o m[2] \o "\n"

C8_Scenario ==
    hex_value = "0x88f0" =>
        /\ Decomposed => first_target = "8" /\ second_target = "0x8f0"
        /\ (Returned /\ output = <<"add x16, x27, 8, lsl 12",
                                    "ldr x16, [x16, 0x8f0]">>)
              => matches = << <<"add x16, x27, 8, lsl 12",
                                "ldr x16, [x16, 0x8f0]">> >>

C8_Witness ==
    /\ hex_value = "0x88f0"
    /\ pc = "report"
    /\ output = <<"add x16, x27, 8, lsl 12", "ldr x16, [x16, 0x8f0]">>
    /\ Len(matches) = 1

Upto(n) == [k \in 1..n |-> k - 1]

C9_ScanInvariant ==
    /\ exc = ""
    /\ scanned = Upto(i)
    /\ Len(scanned) <= Max(Len(output) - 1, 0)
    /\ \A n \in 1..Len(scanned) :
          Reads(output, scanned[n], first_target) \subseteq 0..(Len(output) - 1)
    /\ Returned => scanned = Upto(Max(Len(output) - 1, 0))
    /\ (Returned /\ Len(output) <= 1) => scanned = <<>> /\ matches = <<>>

\* a step of the scan goes to the next index, or returns once i has
\* reached L-1
C9_ScanProgress ==
    pc = "scan" =>
        \/ pc' = "scan" /\ i' = i + 1 /\ i < Len(output) - 1
        \/ pc' = "report" /\ i' = i /\ i >= Len(output) - 1

\* C9: the scan visits each index i, 0 <= i <= L-2, once and in ascending
\* order, tests at most L-1 pairs, reads no index outside 0..L-1 and
\* terminates (every step advances i, which is bounded by L-1, and the scan
\* returns from there); for L = 0 or L = 1 it tests nothing and returns no
\* match, without an error.
C9_ScanBounded == [] C9_ScanInvariant /\ [][C9_ScanProgress]_vars

C9_Witness ==
    /\ pc = "report"
    /\ Len(output) = 3
    /\ scanned = <<0, 1>>

\* the lines of the window replies
WindowLines ==
    UNION {{Split(windows[w], "\n")[k] : k \in 1..Len(Split(windows[w], "\n"))}
             : w \in 1..Len(windows)}

\* the hit lines that are not blank
RECURSIVE NonBlank(_)
NonBlank(ls) ==
    IF ls = <<>> THEN 0
    ELSE (IF Strip(ls[1]) = "" THEN 0 ELSE 1) + NonBlank(Tail(ls))

\* C10: the returned list keeps the windows separated: no element holds text
\* of two windows, each is a line of one window reply; and a blank hit line
\* issues no window query.
C10_WindowsSeparated ==
    (Returned \/ pc = "scan") =>
        /\ \A k \in 1..Len(output) : output[k] = "" \/ output[k] \in WindowLines
        /\ Len(cmds) = 1 + NonBlank(hits)
        /\ Len(windows) = NonBlank(hits)

====
